---- MODULE Spec2Model ----
(***************************************************************************)
(* The playback session of src/index.tsx (PlayerProvider): the current     *)
(* track, the play queue and its shuffled order, the repeat mode, the      *)
(* recently-played history and the single <audio> element it drives.       *)
(*                                                                         *)
(* A track is a record [id, file]: file = NoFile is a history entry that   *)
(* was restored from localStorage (JSON drops the File object), any other  *)
(* value is the File handle of a song imported in this session.            *)
(*                                                                         *)
(* Every handler runs to completion on the values captured by the render   *)
(* it was created in (the closure c), queues its state updates (the        *)
(* pending session p) and is followed by one render and its effects.       *)
(***************************************************************************)
EXTENDS Integers, Sequences, FiniteSets, TLC

VARIABLES
    songs,            \* AppWrapper: the imported songs
    currentSong,      \* PlayerProvider state
    isPlaying,
    currentQueue,
    shuffledQueue,
    isShuffleActive,
    repeatMode,
    recentlyPlayed,
    queueIsSongs,     \* currentQueue is the very array `songs` (Object.is)
    endedIsPlaying,   \* isPlaying as captured by the attached 'ended' listener
    msRepeatMode,     \* repeatMode as captured by the mediaSession handlers
    devSrc,           \* <audio>: the loaded source
    devState,         \* <audio>: "empty", "paused", "playing" or "ended"
    cmds,             \* commands the last transition issued to <audio>
    op,               \* the last transition: its name, the song it gave to
                      \* playSong and the history length it started from
    quota,            \* imports the bound MaxTracks still allows
    progress,         \* PlayerProvider state: seconds shown as played
    duration,         \* PlayerProvider state: seconds the song lasts
    playerSettings,   \* PlayerProvider state: the player's settings
    msMetadata,       \* navigator.mediaSession.metadata: the id of the song
                      \* whose title and artist are published, 0 for null
    msPlaybackState,  \* navigator.mediaSession.playbackState
    storedHistory,    \* localStorage: the text under 'recentlyPlayedSongs'
    storedSettings,   \* localStorage: the text under 'playerSettings'
    storeFull,        \* localStorage: setItem throws (quota exceeded)
    thrown,           \* the handler of the last transition threw
    hist              \* history variable, kept in the sessions that are
                      \* watched: what the last transitions started from

vars == <<songs, currentSong, isPlaying, currentQueue, shuffledQueue,
          isShuffleActive, repeatMode, recentlyPlayed, queueIsSongs,
          endedIsPlaying, msRepeatMode, devSrc, devState, cmds, op,
          quota, progress, duration, playerSettings, msMetadata,
          msPlaybackState, storedHistory, storedSettings, storeFull, thrown,
          hist>>

---------------------------------------------------------------------------
\* Bounds of the model.
MaxTracks == 2      \* tracks a session sees: restored entries plus imports
MaxQueue == 3       \* SpecShuffle: songs imported, the longest queue
MaxShort == 1       \* SpecFull: entries the history may fall short of its cap
MaxTime == 2        \* SpecSeek: seconds the longest file lasts

\* slice(0, 50) of playSong
HistoryCap == 50

NoFile == 0
NoSong == [id |-> 0, file |-> NoFile]

\* A history entry of a previous session: JSON.parse yields no `file`.
StoredEntry(i) == [id |-> i, file |-> NoFile]

\* handleSaveMetadata: id is Date.now(), later than every stored id (a
\* stored history has at most HistoryCap entries, ids 1..HistoryCap) and
\* than every earlier import; file is the selected File.
NewSong(n) == [id |-> HistoryCap + n, file |-> HistoryCap + n]

\* The history a previous session wrote: most recent first, distinct ids.
StoredHistory(n) == [i \in 1..n |-> StoredEntry(n + 1 - i)]

RepeatModes == <<"off", "all", "one">>

---------------------------------------------------------------------------
\* Array helpers.

\* array.filter(s => s.id !== id)
FilterOutId(array, id) == SelectSeq(array, LAMBDA s : s.id # id)

\* array.findIndex(s => s.id === id), 1-based; 0 stands for -1
RECURSIVE FindFrom(_, _, _)
FindFrom(array, id, k) ==
    IF k > Len(array) THEN 0
    ELSE IF array[k].id = id THEN k
    ELSE FindFrom(array, id, k + 1)

findIndex(array, id) == FindFrom(array, id, 1)

\* array.find(s => s.id === id); NoSong stands for undefined
find(array, id) ==
    IF findIndex(array, id) = 0 THEN NoSong ELSE array[findIndex(array, id)]

\* array.slice(0, n)
slice0(array, n) == SubSeq(array, 1, IF Len(array) < n THEN Len(array) ELSE n)

Swap(array, i, j) == [array EXCEPT ![i] = array[j], ![j] = array[i]]

\* The values Math.floor(Math.random() * currentIndex) can take in one
\* shuffleArray run over n elements: rnd[k] < k for currentIndex = k.
RECURSIVE RandomDraws(_)
RandomDraws(n) ==
    IF n = 0 THEN {<<>>}
    ELSE {Append(f, r) : f \in RandomDraws(n - 1), r \in 0..(n - 1)}

RECURSIVE ShuffleFrom(_, _, _)
ShuffleFrom(array, currentIndex, rnd) ==
    IF currentIndex = 0 THEN array
    ELSE ShuffleFrom(Swap(array, currentIndex, rnd[currentIndex] + 1),
                     currentIndex - 1, rnd)

\* Mutant: every slot takes its drawn element, nothing is swapped back.
shuffleArrayNoSwap(array, rnd) ==
    [i \in 1..Len(array) |-> array[rnd[i] + 1]]

\* Fisher-Yates, with the random draws rnd
shuffleArray(array, rnd) == ShuffleFrom(array, Len(array), rnd)

---------------------------------------------------------------------------
\* localStorage and JSON.

\* What getItem returns: null for a key that is not there, or a text; a
\* text either parses to a value or makes JSON.parse throw.
Missing == [kind |-> "missing"]
Corrupt == [kind |-> "corrupt"]
JsonText(value) == [kind |-> "json", value |-> value]

\* JSON.stringify writes a File object as {}; read back it is an object
\* without content, which is truthy.
EmptyObject == -1

\* Mutant: the File stays in the entry that is stored.
StorableAsIs(song) == song

\* const { file, ...storableSong } = song
Storable(song) == [id |-> song.id]

\* JSON.stringify of one entry: a field that is undefined is left out
stringifyEntry(e) ==
    IF "file" \in DOMAIN e /\ e.file # NoFile
    THEN [id |-> e.id, file |-> EmptyObject]
    ELSE [id |-> e.id]

\* JSON.parse of one entry; in memory NoFile stands for `file` undefined
parseEntry(t) ==
    [id |-> t.id, file |-> IF "file" \in DOMAIN t THEN t.file ELSE NoFile]

\* JSON.stringify(recentlyPlayed.map(song => storableSong))
stringifyHistory(history) ==
    JsonText([i \in 1..Len(history) |-> stringifyEntry(Storable(history[i]))])

\* Mutant: a text that does not parse is taken for the history.
loadHistoryNoCatch(text) ==
    IF text.kind = "json"
    THEN [i \in 1..Len(text.value) |-> parseEntry(text.value[i])]
    ELSE IF text.kind = "corrupt" THEN <<NoSong>> ELSE <<>>

\* saved ? JSON.parse(saved) : [], and [] when JSON.parse throws
loadHistory(text) ==
    IF text.kind = "json"
    THEN [i \in 1..Len(text.value) |-> parseEntry(text.value[i])]
    ELSE <<>>

\* Values of settings: numbers, booleans (v: 1 true, 0 false), and what
\* JSON cannot write: NaN and undefined.
Num(n) == [t |-> "number", v |-> n]
Bool(b) == [t |-> "boolean", v |-> b]
NaN == [t |-> "NaN", v |-> 0]
Undefined == [t |-> "undefined", v |-> 0]
Null == [t |-> "null", v |-> 0]

\* Two of the fields of defaultPlayerSettings, a number and a boolean.
defaultPlayerSettings ==
    [fullPlayerSize |-> Num(80), showShuffle |-> Bool(1)]

\* { ...a, ...b }
Spread(a, b) ==
    [f \in (DOMAIN a) \cup (DOMAIN b) |-> IF f \in DOMAIN b THEN b[f] ELSE a[f]]

\* JSON.stringify(settings): undefined fields are left out, NaN is null
stringifySettings(settings) ==
    JsonText([f \in {g \in DOMAIN settings : settings[g] # Undefined} |->
                 IF settings[f] = NaN THEN Null ELSE settings[f]])

\* Mutant: the stored record replaces the defaults.
loadSettingsNoMerge(text) ==
    IF text.kind = "json" THEN text.value ELSE defaultPlayerSettings

\* savedSettings ? { ...defaultPlayerSettings, ...JSON.parse(savedSettings) }
\*               : defaultPlayerSettings, and the defaults on a throw
loadSettings(text) ==
    IF text.kind = "json" THEN Spread(defaultPlayerSettings, text.value)
    ELSE defaultPlayerSettings

---------------------------------------------------------------------------
\* The <audio> element.

devSetSrc(p, file) ==
    [p EXCEPT !.devSrc = file, !.devState = "paused",
              !.cmds = Append(@, <<"src", file>>)]

\* play() starts the loaded source (from its beginning when it had ended);
\* the promise it returns may still reject, see PlayResults.
devPlay(p) ==
    [p EXCEPT !.devState = IF p.devSrc # NoFile THEN "playing" ELSE @,
              !.playFrom = p.devState,
              !.cmds = Append(@, <<"play">>)]

devPause(p) ==
    [p EXCEPT !.devState = IF @ = "playing" THEN "paused" ELSE @,
              !.cmds = Append(@, <<"pause">>)]

\* currentTime = 0
devSeekStart(p) ==
    [p EXCEPT !.devState = IF @ = "ended" THEN "paused" ELSE @,
              !.cmds = Append(@, <<"seek", 0>>)]

\* audio.duration once the metadata of the source is known: the files differ
\* in length.
MediaDuration(file) == IF file % 2 = 1 THEN MaxTime ELSE MaxTime - 1

\* currentTime = time
devSeek(p, time) ==
    [p EXCEPT !.devState = IF @ = "ended" /\ time < MediaDuration(p.devSrc)
                           THEN "paused" ELSE @,
              !.cmds = Append(@, <<"seek", time>>)]

---------------------------------------------------------------------------
\* The handlers of PlayerProvider.  c: the values the handler's closure
\* captured; p: the session with the updates queued so far.

\* Mutant: the stale entry stays in the history.
EvictNothing(prev, id) == prev

\* setRecentlyPlayed(prev => prev.filter(s => s.id !== songToPlay.id))
EvictHistory(prev, id) == FilterOutId(prev, id)

\* Mutant: the history is not cut to its cap.
PromoteNoCap(prev, song) == <<song>> \o FilterOutId(prev, song.id)

\* Mutant: the earlier entry of the song is not removed.
PromoteNoDedup(prev, song) == slice0(<<song>> \o prev, HistoryCap)

\* Mutant: the song is put behind the others.
PromoteAtEnd(prev, song) ==
    slice0(FilterOutId(prev, song.id) \o <<song>>, HistoryCap)

\* setRecentlyPlayed(prev => [song, ...filtered].slice(0, 50))
PromoteHistory(prev, song) ==
    slice0(<<song>> \o FilterOutId(prev, song.id), HistoryCap)

\* Mutant: the toggle always resumes.
togglePlayPauseResume(c, p) ==
    IF c.currentSong = NoSong THEN p
    ELSE [devPlay(p) EXCEPT !.isPlaying = TRUE]

\* Mutant: the toggle does not look for a current song.
togglePlayPauseNoGuard(c, p) ==
    LET d == IF c.isPlaying THEN devPause(p) ELSE devPlay(p)
    IN  [d EXCEPT !.isPlaying = ~c.isPlaying]

togglePlayPause(c, p) ==
    IF c.currentSong = NoSong THEN p
    ELSE LET d == IF c.isPlaying THEN devPause(p) ELSE devPlay(p)
         IN  [d EXCEPT !.isPlaying = ~c.isPlaying]

\* [songToPlay, ...shuffleArray(otherSongs)]
BuildShuffled(queue, anchor, rnd) ==
    <<anchor>> \o shuffleArray(FilterOutId(queue, anchor.id), rnd)

\* Mutant: the requested entry is played as it is.
ResolveSongAsGiven(c, songToPlay) == songToPlay

\* songToPlay.file ? songToPlay : songs.find(s => s.id === songToPlay.id)
ResolveSong(c, songToPlay) ==
    IF songToPlay.file # NoFile THEN songToPlay ELSE find(c.songs, songToPlay.id)

\* if (queue) { setCurrentQueue(queue); if (isShuffleActive) ... }
\* from: "songs" (Songs page), "recent" (Home page), "current" (playNext and
\* playPrevious pass currentQueue itself).
SetQueue(c, p, songToPlay, queue, from, rnd) ==
    LET q == [p EXCEPT !.currentQueue = queue,
                       !.qChanged = @ \/ from = "recent"
                                      \/ (from = "songs" /\ ~p.queueIsSongs),
                       !.queueIsSongs = IF from = "current" THEN @
                                        ELSE from = "songs"]
    IN  IF c.isShuffleActive
        THEN [q EXCEPT !.shuffledQueue = BuildShuffled(queue, songToPlay, rnd),
                       !.sqChanged = TRUE]
        ELSE q

\* Mutant: the song is started without being made the current song.
StartSongNoCurrent(p, song) ==
    [devPlay(devSetSrc(p, song.file)) EXCEPT !.isPlaying = TRUE]

\* Mutant: the source is loaded but never started.
StartSongNoPlay(p, song) ==
    [devSetSrc([p EXCEPT !.currentSong = song], song.file)
        EXCEPT !.isPlaying = TRUE]

StartSong(p, song) ==
    [devPlay(devSetSrc([p EXCEPT !.currentSong = song], song.file))
        EXCEPT !.isPlaying = TRUE]

playSong(c, p, songToPlay, queue, from, rnd) ==
    LET p1 == SetQueue(c, [p EXCEPT !.song = songToPlay],
                       songToPlay, queue, from, rnd)
        song == ResolveSong(c, songToPlay)
    IN  IF song = NoSong
        THEN [p1 EXCEPT !.recentlyPlayed = EvictHistory(@, songToPlay.id)]
        ELSE LET p2 == IF c.currentSong # NoSong /\ c.currentSong.id = song.id
                       THEN togglePlayPause(c, p1)
                       ELSE StartSong(p1, song)
             IN  [p2 EXCEPT !.recentlyPlayed = PromoteHistory(@, song)]

ActiveQueue(c) == IF c.isShuffleActive THEN c.shuffledQueue ELSE c.currentQueue

\* Mutant: repeat one wraps like repeat all.
NextIndexWrapOne(c) ==
    LET activeQueue == IF c.isShuffleActive THEN c.shuffledQueue ELSE c.currentQueue
        currentIndex == findIndex(activeQueue, c.currentSong.id)
    IN  IF c.currentSong = NoSong \/ Len(activeQueue) = 0 THEN 0
        ELSE IF currentIndex = 0 THEN 0
        ELSE IF currentIndex + 1 > Len(activeQueue)
             THEN IF c.repeatMode # "off" THEN 1 ELSE -1
             ELSE currentIndex + 1

\* Mutant: a skip under repeat one restarts the current entry.
NextIndexRestartOne(c) ==
    LET activeQueue == IF c.isShuffleActive THEN c.shuffledQueue ELSE c.currentQueue
        currentIndex == findIndex(activeQueue, c.currentSong.id)
    IN  IF c.currentSong = NoSong \/ Len(activeQueue) = 0 THEN 0
        ELSE IF currentIndex = 0 THEN 0
        ELSE IF c.repeatMode = "one" THEN currentIndex
        ELSE IF currentIndex + 1 > Len(activeQueue)
             THEN IF c.repeatMode = "all" THEN 1 ELSE -1
             ELSE currentIndex + 1

\* Mutant: a current song that is not in the queue counts as index -1.
NextIndexNoCheck(c) ==
    LET activeQueue == IF c.isShuffleActive THEN c.shuffledQueue ELSE c.currentQueue
        currentIndex == findIndex(activeQueue, c.currentSong.id)
    IN  IF c.currentSong = NoSong \/ Len(activeQueue) = 0 THEN 0
        ELSE IF currentIndex + 1 > Len(activeQueue)
             THEN IF c.repeatMode = "all" THEN 1 ELSE -1
             ELSE currentIndex + 1

\* Mutant: the end of the queue stops playback under repeat all as well.
NextIndexNoWrap(c) ==
    LET activeQueue == IF c.isShuffleActive THEN c.shuffledQueue ELSE c.currentQueue
        currentIndex == findIndex(activeQueue, c.currentSong.id)
    IN  IF c.currentSong = NoSong \/ Len(activeQueue) = 0 THEN 0
        ELSE IF currentIndex = 0 THEN 0
        ELSE IF currentIndex + 1 > Len(activeQueue) THEN -1
        ELSE currentIndex + 1

\* 1-based index of the entry playNext hands to playSong; 0: it returns
\* early; -1: it stops playback.
NextIndex(c) ==
    LET activeQueue == ActiveQueue(c)
        currentIndex == findIndex(activeQueue, c.currentSong.id)
    IN  IF c.currentSong = NoSong \/ Len(activeQueue) = 0 THEN 0
        ELSE IF currentIndex = 0 THEN 0
        ELSE IF currentIndex + 1 > Len(activeQueue)
             THEN IF c.repeatMode = "all" THEN 1 ELSE -1
             ELSE currentIndex + 1

playNext(c, p, rnd) ==
    LET nextIndex == NextIndex(c)
    IN  IF nextIndex = 0 THEN p
        ELSE IF nextIndex = -1 THEN [p EXCEPT !.isPlaying = FALSE]
        ELSE playSong(c, p, ActiveQueue(c)[nextIndex], c.currentQueue,
                      "current", rnd)

\* Mutant: previous stays on the first entry instead of wrapping.
PrevIndexNoWrap(c) ==
    LET activeQueue == IF c.isShuffleActive THEN c.shuffledQueue ELSE c.currentQueue
        currentIndex == findIndex(activeQueue, c.currentSong.id)
    IN  IF c.currentSong = NoSong \/ Len(activeQueue) = 0 THEN 0
        ELSE IF currentIndex = 0 THEN 0
        ELSE IF currentIndex = 1 THEN 1 ELSE currentIndex - 1

\* 1-based index of the entry playPrevious hands to playSong; 0: it returns
\* early.
PrevIndex(c) ==
    LET activeQueue == ActiveQueue(c)
        currentIndex == findIndex(activeQueue, c.currentSong.id)
    IN  IF c.currentSong = NoSong \/ Len(activeQueue) = 0 THEN 0
        ELSE IF currentIndex = 0 THEN 0
        ELSE (((currentIndex - 1) - 1 + Len(activeQueue)) % Len(activeQueue)) + 1

playPrevious(c, p, rnd) ==
    LET prevIndex == PrevIndex(c)
    IN  IF prevIndex = 0 THEN p
        ELSE playSong(c, p, ActiveQueue(c)[prevIndex], c.currentQueue,
                      "current", rnd)

\* Mutant: turning shuffle on reorders the queue itself.
toggleShuffleInPlace(c, p, rnd) ==
    LET newShuffleState == ~c.isShuffleActive
        shuffled == IF newShuffleState /\ c.currentSong # NoSong
                    THEN BuildShuffled(c.currentQueue, c.currentSong, rnd)
                    ELSE <<>>
    IN  [p EXCEPT !.isShuffleActive = newShuffleState,
                  !.shuffledQueue = shuffled,
                  !.currentQueue = IF shuffled # <<>> THEN shuffled ELSE @,
                  !.sqChanged = TRUE]

\* Mutant: turning shuffle on does not look for a current song.
toggleShuffleNoGuard(c, p, rnd) ==
    LET newShuffleState == ~c.isShuffleActive
    IN  [p EXCEPT !.isShuffleActive = newShuffleState,
                  !.shuffledQueue =
                      IF ~newShuffleState THEN <<>>
                      ELSE IF c.currentSong # NoSong
                           THEN BuildShuffled(c.currentQueue, c.currentSong, rnd)
                           ELSE <<c.currentSong>> \o c.currentQueue,
                  !.sqChanged = TRUE]

toggleShuffle(c, p, rnd) ==
    LET newShuffleState == ~c.isShuffleActive
    IN  [p EXCEPT !.isShuffleActive = newShuffleState,
                  !.shuffledQueue =
                      IF newShuffleState /\ c.currentSong # NoSong
                      THEN BuildShuffled(c.currentQueue, c.currentSong, rnd)
                      ELSE <<>>,
                  !.sqChanged = TRUE]

\* Mutant: the cycle runs backwards.
NextModeBack(mode) ==
    LET currentModeIndex == CHOOSE i \in 1..3 : RepeatModes[i] = mode
    IN  RepeatModes[((currentModeIndex + 1) % 3) + 1]

\* modes[(modes.indexOf(repeatMode) + 1) % modes.length]
NextMode(mode) ==
    LET currentModeIndex == CHOOSE i \in 1..3 : RepeatModes[i] = mode
    IN  RepeatModes[(currentModeIndex % 3) + 1]

toggleRepeat(c, p) == [p EXCEPT !.repeatMode = NextMode(c.repeatMode)]

\* Mutant: the seek waits for the device to report the new time.
seekNoProgress(p, time) == [dev |-> devSeek(p, time), progress |-> progress]

\* audioRef.current.currentTime = time; setProgress(time)
seek(p, time) == [dev |-> devSeek(p, time), progress |-> time]

\* Mutant: the tick is dropped.
handleTimeUpdateDropped(time) == progress

\* setProgress(audio.currentTime)
handleTimeUpdate(time) == time

\* setDuration(audio.duration)
handleLoadedMetadata(d) == d

handleEnded(c, p, rnd) ==
    IF c.repeatMode = "one"
    THEN devPlay(devSeekStart(p))
    ELSE playNext(c, p, rnd)

---------------------------------------------------------------------------
\* Renders and effects.

\* What a handler created by the latest render captured (button clicks).
Fresh ==
    [currentSong |-> currentSong, isPlaying |-> isPlaying,
     currentQueue |-> currentQueue, shuffledQueue |-> shuffledQueue,
     isShuffleActive |-> isShuffleActive, repeatMode |-> repeatMode,
     songs |-> songs]

\* The 'ended' listener is re-attached when currentSong, currentQueue,
\* repeatMode, isShuffleActive or shuffledQueue change: isPlaying is the
\* value of the render that attached it.  (songs is not a dependency
\* either, but it is read only to resolve an entry without file, and no
\* stored id is the id of an import.)
EndedClosure == [Fresh EXCEPT !.isPlaying = endedIsPlaying]

\* The mediaSession handlers are re-registered when currentSong, isPlaying,
\* currentQueue, isShuffleActive or shuffledQueue change: repeatMode is the
\* value of the render that registered them.
MsClosure == [Fresh EXCEPT !.repeatMode = msRepeatMode]

\* The session before a handler has queued anything.
Cur ==
    [currentSong |-> currentSong, isPlaying |-> isPlaying,
     currentQueue |-> currentQueue, shuffledQueue |-> shuffledQueue,
     isShuffleActive |-> isShuffleActive, repeatMode |-> repeatMode,
     recentlyPlayed |-> recentlyPlayed, queueIsSongs |-> queueIsSongs,
     devSrc |-> devSrc, devState |-> devState, cmds |-> <<>>,
     playFrom |-> "", song |-> NoSong, qChanged |-> FALSE, sqChanged |-> FALSE]

EndedDepsChanged(p) ==
    \/ p.currentSong # currentSong
    \/ p.qChanged
    \/ p.repeatMode # repeatMode
    \/ p.isShuffleActive # isShuffleActive
    \/ p.sqChanged

\* Mutant: the mediaSession effect does not depend on isPlaying.
MsDepsNoPlaying(p) ==
    \/ p.currentSong # currentSong
    \/ p.qChanged
    \/ p.isShuffleActive # isShuffleActive
    \/ p.sqChanged

MsDepsChanged(p) ==
    \/ p.currentSong # currentSong
    \/ p.isPlaying # isPlaying
    \/ p.qChanged
    \/ p.isShuffleActive # isShuffleActive
    \/ p.sqChanged

\* Mutant: a refused play() takes isPlaying back.
PlayResultsRevert(p) ==
    IF p.playFrom = "" THEN {p}
    ELSE {p, [p EXCEPT !.devState = p.playFrom, !.isPlaying = FALSE]}

\* .catch(e => console.error(...)): the device either plays, or refuses and
\* stays as it was before play(); the handler has returned either way.
PlayResults(p) ==
    IF p.playFrom = "" THEN {p} ELSE {p, [p EXCEPT !.devState = p.playFrom]}

\* The mediaSession effect: metadata and playbackState of the render.
PublishedMetadata(p) == p.currentSong.id

PublishedState(p) ==
    IF p.currentSong = NoSong THEN "none"
    ELSE IF p.isPlaying THEN "playing" ELSE "paused"

\* Every playSong ends in a setRecentlyPlayed with a new array (filter), so
\* the effect on [recentlyPlayed] runs after it.
HistoryChanged(p) == p.song # NoSong

\* The effect on [recentlyPlayed]: setItem inside try/catch; when setItem
\* throws the text that was stored stays.
SaveHistory(history) ==
    IF storeFull THEN storedHistory ELSE stringifyHistory(history)

\* The history variable.  In a session that is not watched it stays Off.  In
\* a watched one it holds the song that was current before the transition,
\* the shuffled queue the last toggleShuffle built when it turned shuffle on,
\* and the number of playNext that followed it with nothing in between; the
\* run is over after as many playNext as the built queue has entries.
Off == [on |-> FALSE]

Watching(before, built, played) ==
    [on |-> TRUE, before |-> before, built |-> built, played |-> played]

Observe(p, name) ==
    IF ~hist.on THEN hist
    ELSE IF name = "toggleShuffle" /\ ~isShuffleActive /\ p.isShuffleActive
         THEN Watching(currentSong, p.shuffledQueue, 0)
    ELSE IF name = "playNext" /\ hist.played + 1 < Len(hist.built)
         THEN Watching(currentSong, hist.built, hist.played + 1)
    ELSE Watching(currentSong, <<>>, 0)

\* The render after a handler, and its effects.
Commit(p, name) ==
    /\ currentSong' = p.currentSong
    /\ isPlaying' = p.isPlaying
    /\ currentQueue' = p.currentQueue
    /\ shuffledQueue' = p.shuffledQueue
    /\ isShuffleActive' = p.isShuffleActive
    /\ repeatMode' = p.repeatMode
    /\ recentlyPlayed' = p.recentlyPlayed
    /\ queueIsSongs' = p.queueIsSongs
    /\ devSrc' = p.devSrc
    /\ devState' = p.devState
    /\ cmds' = p.cmds
    /\ op' = [name |-> name, song |-> p.song, len |-> Len(recentlyPlayed)]
    /\ endedIsPlaying' = IF EndedDepsChanged(p) THEN p.isPlaying ELSE endedIsPlaying
    /\ msRepeatMode' = IF MsDepsChanged(p) /\ p.currentSong # NoSong
                       THEN p.repeatMode ELSE msRepeatMode
    /\ msMetadata' = IF MsDepsChanged(p) THEN PublishedMetadata(p)
                     ELSE msMetadata
    /\ msPlaybackState' = IF MsDepsChanged(p) THEN PublishedState(p)
                          ELSE msPlaybackState
    /\ storedHistory' = IF HistoryChanged(p) THEN SaveHistory(p.recentlyPlayed)
                        ELSE storedHistory
    /\ thrown' = FALSE
    /\ hist' = Observe(p, name)
    /\ UNCHANGED <<songs, quota, progress, duration, playerSettings,
                   storedSettings, storeFull>>

\* The draws of the shuffleArray call playSong(songToPlay, queue) makes.
DrawsFor(c, queue, songToPlay) ==
    IF c.isShuffleActive
    THEN RandomDraws(Len(FilterOutId(queue, songToPlay.id)))
    ELSE {<<>>}

DrawsForIndex(c, index) ==
    IF index > 0 THEN DrawsFor(c, c.currentQueue, ActiveQueue(c)[index])
    ELSE {<<>>}

---------------------------------------------------------------------------
SessionStart ==
    /\ songs = <<>>
    /\ currentSong = NoSong
    /\ isPlaying = FALSE
    /\ currentQueue = <<>>
    /\ shuffledQueue = <<>>
    /\ isShuffleActive = FALSE
    /\ repeatMode = "off"
    /\ queueIsSongs = FALSE
    /\ endedIsPlaying = FALSE
    /\ msRepeatMode = "off"
    /\ devSrc = NoFile
    /\ devState = "empty"
    /\ cmds = <<>>
    /\ op = [name |-> "init", song |-> NoSong, len |-> 0]
    /\ progress = 0
    /\ duration = 0
    /\ playerSettings = defaultPlayerSettings
    /\ msMetadata = 0
    /\ msPlaybackState = "none"
    /\ storedSettings = Missing
    /\ storeFull = FALSE
    /\ thrown = FALSE

\* A session that is not watched.
InitSession == SessionStart /\ hist = Off

\* The effect on [recentlyPlayed] has run after the first render.
InitStored == storedHistory = stringifyHistory(recentlyPlayed)

\* useState initialisers: the history is what localStorage holds.
Init ==
    /\ InitSession
    /\ \E n \in 0..MaxTracks :
         /\ recentlyPlayed = StoredHistory(n)
         /\ quota = MaxTracks - n
    /\ InitStored

\* Import page: addSong appends to a new songs array.
ImportSong ==
    /\ quota > 0
    /\ quota' = quota - 1
    /\ songs' = Append(songs, NewSong(Len(songs) + 1))
    /\ queueIsSongs' = FALSE
    /\ cmds' = <<>>
    /\ op' = [name |-> "import", song |-> NoSong, len |-> Len(recentlyPlayed)]
    /\ thrown' = FALSE
    /\ UNCHANGED <<currentSong, isPlaying, currentQueue, shuffledQueue,
                   isShuffleActive, repeatMode, recentlyPlayed,
                   endedIsPlaying, msRepeatMode, devSrc, devState,
                   progress, duration, playerSettings, msMetadata,
                   msPlaybackState, storedHistory, storedSettings, storeFull,
                   hist>>

\* A handler's result h, the outcome of its play() and the next render.
Run(h, name) == \E p \in PlayResults(h) : Commit(p, name)

\* Songs page: onClick={() => playSong(song, songs)}
PlayFromSongs ==
    \E i \in 1..Len(songs) :
      \E rnd \in DrawsFor(Fresh, songs, songs[i]) :
        \E h \in {playSong(Fresh, Cur, songs[i], songs, "songs", rnd)} :
          Run(h, "playSong")

\* Home page: onClick={() => playSong(song, recentlyPlayed)}
PlayFromHome ==
    \E i \in 1..Len(recentlyPlayed) :
      \E rnd \in DrawsFor(Fresh, recentlyPlayed, recentlyPlayed[i]) :
        \E h \in {playSong(Fresh, Cur, recentlyPlayed[i], recentlyPlayed,
                           "recent", rnd)} :
          Run(h, "playSong")

\* The player's buttons exist only while a song is current (MiniPlayer and
\* FullPlayer render null otherwise).
PlayNext ==
    /\ currentSong # NoSong
    /\ \E rnd \in DrawsForIndex(Fresh, NextIndex(Fresh)) :
         \E h \in {playNext(Fresh, Cur, rnd)} : Run(h, "playNext")

PlayPrevious ==
    /\ currentSong # NoSong
    /\ \E rnd \in DrawsForIndex(Fresh, PrevIndex(Fresh)) :
         \E h \in {playPrevious(Fresh, Cur, rnd)} : Run(h, "playPrevious")

TogglePlayPause ==
    /\ currentSong # NoSong
    /\ \E h \in {togglePlayPause(Fresh, Cur)} : Run(h, "togglePlayPause")

ToggleShuffle ==
    /\ currentSong # NoSong
    /\ \E rnd \in (IF isShuffleActive THEN {<<>>}
                   ELSE RandomDraws(Len(FilterOutId(currentQueue, currentSong.id)))) :
         \E h \in {toggleShuffle(Fresh, Cur, rnd)} : Run(h, "toggleShuffle")

ToggleRepeat ==
    /\ currentSong # NoSong
    /\ \E h \in {toggleRepeat(Fresh, Cur)} : Run(h, "toggleRepeat")

\* The <audio> element reaches the end of its source.
Ended ==
    /\ devState = "playing"
    /\ \E rnd \in (IF EndedClosure.repeatMode = "one" THEN {<<>>}
                   ELSE DrawsForIndex(EndedClosure, NextIndex(EndedClosure))) :
         \E h \in {handleEnded(EndedClosure, [Cur EXCEPT !.devState = "ended"],
                               rnd)} :
           Run(h, "ended")

\* Inbound controls of the now-playing surface; the handlers are registered
\* once a song is current.
MsNextTrack ==
    /\ currentSong # NoSong
    /\ \E rnd \in DrawsForIndex(MsClosure, NextIndex(MsClosure)) :
         \E h \in {playNext(MsClosure, Cur, rnd)} : Run(h, "nexttrack")

MsPreviousTrack ==
    /\ currentSong # NoSong
    /\ \E rnd \in DrawsForIndex(MsClosure, PrevIndex(MsClosure)) :
         \E h \in {playPrevious(MsClosure, Cur, rnd)} : Run(h, "previoustrack")

MsPlay ==
    /\ currentSong # NoSong
    /\ \E h \in {togglePlayPause(MsClosure, Cur)} : Run(h, "mediaPlay")

MsPause ==
    /\ currentSong # NoSong
    /\ \E h \in {togglePlayPause(MsClosure, Cur)} : Run(h, "mediaPause")

Next ==
    \/ ImportSong
    \/ PlayFromSongs
    \/ PlayFromHome
    \/ PlayNext
    \/ PlayPrevious
    \/ TogglePlayPause
    \/ ToggleShuffle
    \/ ToggleRepeat
    \/ Ended
    \/ MsNextTrack
    \/ MsPreviousTrack
    \/ MsPlay
    \/ MsPause

Spec == Init /\ [][Next]_vars

---------------------------------------------------------------------------
\* A session that starts on a full, or nearly full, stored history.  Shuffle
\* stays off, repeat goes from 'off' to 'all' and stays there, and the
\* session is followed while its history holds at least HistoryCap - MaxShort
\* entries.
InitFull ==
    /\ InitSession
    /\ \E n \in {HistoryCap - 1, HistoryCap} : recentlyPlayed = StoredHistory(n)
    /\ quota = MaxTracks
    /\ InitStored

NearFull(history) == Len(history) >= HistoryCap - MaxShort

\* The Home page clicked at its first or its last entry.
PlayFromHomeEnds ==
    /\ \E i \in {1, Len(recentlyPlayed)} \cap (1..Len(recentlyPlayed)) :
         \E h \in {playSong(Fresh, Cur, recentlyPlayed[i], recentlyPlayed,
                            "recent", <<>>)} :
           Run(h, "playSong")
    /\ NearFull(recentlyPlayed')

PlayNextFull == PlayNext /\ NearFull(recentlyPlayed')

PlayPreviousFull == PlayPrevious /\ NearFull(recentlyPlayed')

EndedFull == Ended /\ NearFull(recentlyPlayed')

\* The repeat button pressed once: from 'off' to 'all'.
RepeatAll == repeatMode = "off" /\ ToggleRepeat

NextFull ==
    \/ ImportSong
    \/ PlayFromSongs
    \/ PlayFromHomeEnds
    \/ PlayNextFull
    \/ PlayPreviousFull
    \/ TogglePlayPause
    \/ RepeatAll
    \/ EndedFull

SpecFull == InitFull /\ [][NextFull]_vars

---------------------------------------------------------------------------
\* The operations of the context value (togglePlayPause, toggleShuffle,
\* playNext, playPrevious) as functions of the provider's state: they are
\* called on any value of the state, whether or not a page of this
\* application leads there, and with or without a current song.

Library == [i \in 1..MaxTracks |-> NewSong(i)]

LibrarySongs == {Library[i] : i \in 1..MaxTracks}

\* Arrays of distinct songs of the library.
Queues ==
    {q \in UNION {[1..n -> LibrarySongs] : n \in 0..MaxTracks} :
        \A i, j \in 1..Len(q) : q[i] = q[j] => i = j}

InitCall ==
    /\ songs = Library
    /\ quota = 0
    /\ currentSong \in {NoSong} \cup LibrarySongs
    /\ isPlaying \in BOOLEAN
    /\ currentQueue \in Queues
    /\ isShuffleActive \in BOOLEAN
    /\ shuffledQueue \in (IF isShuffleActive THEN Queues ELSE {<<>>})
    /\ repeatMode \in {RepeatModes[i] : i \in 1..3}
    /\ recentlyPlayed = IF currentSong = NoSong THEN <<>> ELSE <<currentSong>>
    /\ queueIsSongs = FALSE
    /\ endedIsPlaying = isPlaying
    /\ msRepeatMode = repeatMode
    /\ devSrc = currentSong.file
    /\ devState = IF currentSong = NoSong THEN "empty"
                  ELSE IF isPlaying THEN "playing" ELSE "paused"
    /\ cmds = <<>>
    /\ op = [name |-> "init", song |-> NoSong, len |-> 0]
    /\ progress = 0
    /\ duration = 0
    /\ playerSettings = defaultPlayerSettings
    /\ msMetadata = currentSong.id
    /\ msPlaybackState = IF currentSong = NoSong THEN "none"
                         ELSE IF isPlaying THEN "playing" ELSE "paused"
    /\ storedSettings = Missing
    /\ storeFull = FALSE
    /\ thrown = FALSE
    /\ hist = Off
    /\ InitStored

CallTogglePlayPause ==
    \E h \in {togglePlayPause(Fresh, Cur)} : Run(h, "togglePlayPause")

CallToggleShuffle ==
    \E rnd \in (IF isShuffleActive \/ currentSong = NoSong THEN {<<>>}
                ELSE RandomDraws(Len(FilterOutId(currentQueue, currentSong.id)))) :
      \E h \in {toggleShuffle(Fresh, Cur, rnd)} : Run(h, "toggleShuffle")

CallPlayNext ==
    \E rnd \in DrawsForIndex(Fresh, NextIndex(Fresh)) :
      \E h \in {playNext(Fresh, Cur, rnd)} : Run(h, "playNext")

CallPlayPrevious ==
    \E rnd \in DrawsForIndex(Fresh, PrevIndex(Fresh)) :
      \E h \in {playPrevious(Fresh, Cur, rnd)} : Run(h, "playPrevious")

NextCall ==
    \/ CallTogglePlayPause
    \/ CallToggleShuffle
    \/ CallPlayNext
    \/ CallPlayPrevious
    \/ MsPlay
    \/ MsPause

SpecCall == InitCall /\ [][NextCall]_vars

---------------------------------------------------------------------------
\* A session without stored history that imports up to MaxQueue songs, plays
\* them from the Songs page, skips forward and toggles shuffle: the queues
\* that are shuffled hold up to MaxQueue songs.

InitShuffle ==
    /\ InitSession
    /\ recentlyPlayed = <<>>
    /\ quota = MaxQueue
    /\ InitStored

NextShuffle ==
    \/ ImportSong
    \/ PlayFromSongs
    \/ PlayNext
    \/ ToggleShuffle

SpecShuffle == InitShuffle /\ [][NextShuffle]_vars

---------------------------------------------------------------------------
\* Sessions over a store that may hold anything an earlier session, or an
\* earlier version of the application, left there, and that may refuse
\* writes: the page is loaded, songs are imported and played, the player's
\* settings are edited, the page is loaded again.

\* updatePlayerSettings: the setItem is not inside a try, so a setItem that
\* throws leaves updatePlayerSettings by the exception; the state update
\* that was queued before it is still rendered.
updatePlayerSettings(newSettings) ==
    /\ playerSettings' = newSettings
    /\ storedSettings' = IF storeFull THEN storedSettings
                         ELSE stringifySettings(newSettings)
    /\ thrown' = storeFull

\* Mutant: a slider hands over a value that is not a number.
SettingInputsNaN ==
    {[key |-> "fullPlayerSize", value |-> NaN]}
    \cup {[key |-> "showShuffle", value |-> Bool(b)] : b \in {0, 1}}

\* What the controls of the Player Customization page hand to
\* handleSettingChange: Number(e.target.value) of a range input, and
\* e.target.checked of a checkbox.
SettingInputs ==
    {[key |-> "fullPlayerSize", value |-> Num(50)]}
    \cup {[key |-> "showShuffle", value |-> Bool(b)] : b \in {0, 1}}

\* handleSettingChange(key, value) and resetToDefaultSettings
UpdatePlayerSettings ==
    /\ \E newSettings \in
            {Spread(playerSettings, [f \in {i.key} |-> i.value]) : i \in SettingInputs}
            \cup {defaultPlayerSettings} :
         updatePlayerSettings(newSettings)
    /\ cmds' = <<>>
    /\ op' = [name |-> "updatePlayerSettings", song |-> NoSong,
              len |-> Len(recentlyPlayed)]
    /\ UNCHANGED <<songs, currentSong, isPlaying, currentQueue, shuffledQueue,
                   isShuffleActive, repeatMode, recentlyPlayed, queueIsSongs,
                   endedIsPlaying, msRepeatMode, devSrc, devState, quota,
                   progress, duration, msMetadata, msPlaybackState,
                   storedHistory, storeFull, hist>>

\* The store runs out of room, or gets room again.
StoreChanges ==
    /\ storeFull' = ~storeFull
    /\ cmds' = <<>>
    /\ thrown' = FALSE
    /\ op' = [name |-> "store", song |-> NoSong, len |-> Len(recentlyPlayed)]
    /\ UNCHANGED <<songs, currentSong, isPlaying, currentQueue, shuffledQueue,
                   isShuffleActive, repeatMode, recentlyPlayed, queueIsSongs,
                   endedIsPlaying, msRepeatMode, devSrc, devState, quota,
                   progress, duration, playerSettings, msMetadata,
                   msPlaybackState, storedHistory, storedSettings, hist>>

\* The page is loaded again: the useState initialisers read the store, the
\* first render's effects run; no song is imported afterwards.
Reload ==
    /\ songs' = <<>>
    /\ quota' = 0
    /\ currentSong' = NoSong
    /\ isPlaying' = FALSE
    /\ currentQueue' = <<>>
    /\ shuffledQueue' = <<>>
    /\ isShuffleActive' = FALSE
    /\ repeatMode' = "off"
    /\ queueIsSongs' = FALSE
    /\ endedIsPlaying' = FALSE
    /\ msRepeatMode' = "off"
    /\ devSrc' = NoFile
    /\ devState' = "empty"
    /\ cmds' = <<>>
    /\ progress' = 0
    /\ duration' = 0
    /\ msMetadata' = 0
    /\ msPlaybackState' = "none"
    /\ thrown' = FALSE
    /\ recentlyPlayed' = loadHistory(storedHistory)
    /\ playerSettings' = loadSettings(storedSettings)
    /\ storedHistory' = SaveHistory(recentlyPlayed')
    /\ op' = [name |-> "load", song |-> NoSong, len |-> 0]
    /\ UNCHANGED <<storedSettings, storeFull, hist>>

\* Records an earlier version may have stored: any of today's fields may
\* be missing.
PartialSettings ==
    UNION {[fields -> {i.value : i \in SettingInputs}] :
              fields \in SUBSET DOMAIN defaultPlayerSettings}

SettingsTexts ==
    {Missing, Corrupt}
    \cup {JsonText(r) : r \in {q \in PartialSettings :
                                \A f \in DOMAIN q :
                                    q[f].t = defaultPlayerSettings[f].t}}

HistoryTexts ==
    {Missing, Corrupt}
    \cup {stringifyHistory(StoredHistory(n)) : n \in 0..MaxTracks}

\* The first load of the page.
InitStore ==
    /\ songs = <<>>
    /\ currentSong = NoSong
    /\ isPlaying = FALSE
    /\ currentQueue = <<>>
    /\ shuffledQueue = <<>>
    /\ isShuffleActive = FALSE
    /\ repeatMode = "off"
    /\ queueIsSongs = FALSE
    /\ endedIsPlaying = FALSE
    /\ msRepeatMode = "off"
    /\ devSrc = NoFile
    /\ devState = "empty"
    /\ cmds = <<>>
    /\ progress = 0
    /\ duration = 0
    /\ msMetadata = 0
    /\ msPlaybackState = "none"
    /\ thrown = FALSE
    /\ hist = Off
    /\ op = [name |-> "init", song |-> NoSong, len |-> 0]
    /\ storeFull \in BOOLEAN
    /\ storedSettings \in SettingsTexts
    /\ playerSettings = loadSettings(storedSettings)
    /\ \E text \in HistoryTexts :
         /\ recentlyPlayed = loadHistory(text)
         /\ storedHistory = IF storeFull THEN text
                            ELSE stringifyHistory(recentlyPlayed)
         /\ quota = MaxTracks - Len(recentlyPlayed)

\* The history and the store.
NextStore ==
    \/ ImportSong
    \/ PlayFromSongs
    \/ PlayFromHome
    \/ StoreChanges
    \/ Reload

SpecStore == InitStore /\ [][NextStore]_vars

\* The settings and the store, in sessions that import one song.
ImportFirst == Len(songs) = 0 /\ ImportSong

NextSettings ==
    \/ UpdatePlayerSettings
    \/ StoreChanges
    \/ Reload
    \/ ImportFirst
    \/ PlayFromSongs
    \/ PlayFromHome
    \/ TogglePlayPause

SpecSettings == InitStore /\ [][NextSettings]_vars

---------------------------------------------------------------------------
\* The scrubber of the full player, and the listeners for the time and the
\* length the <audio> element reports.

\* What a transition of this section leaves alone besides the session.
SignalFrame ==
    UNCHANGED <<songs, currentSong, isPlaying, currentQueue, shuffledQueue,
                isShuffleActive, repeatMode, recentlyPlayed, queueIsSongs,
                endedIsPlaying, msRepeatMode, devSrc, quota, playerSettings,
                msMetadata, msPlaybackState, storedHistory, storedSettings,
                storeFull, hist>>

Signal(name, value) ==
    [name |-> name, song |-> NoSong, len |-> Len(recentlyPlayed),
     value |-> value]

\* Full player: <input type="range" min="0" max={duration || 0}
\* onChange={handleSeek}>, handleSeek = e => seek(Number(e.target.value)).
\* The full player is rendered for a current song.
Seek ==
    /\ currentSong # NoSong
    /\ \E time \in 0..duration :
         \E r \in {seek(Cur, time)} :
           /\ devState' = r.dev.devState
           /\ cmds' = r.dev.cmds
           /\ progress' = r.progress
           /\ op' = Signal("seek", time)
           /\ thrown' = FALSE
           /\ UNCHANGED duration
           /\ SignalFrame

\* 'timeupdate': the element reports the time it has reached.
TimeUpdate ==
    /\ devSrc # NoFile
    /\ \E time \in 0..MediaDuration(devSrc) :
         /\ progress' = handleTimeUpdate(time)
         /\ op' = Signal("timeupdate", time)
         /\ cmds' = <<>>
         /\ thrown' = FALSE
         /\ UNCHANGED <<duration, devState>>
         /\ SignalFrame

\* 'loadedmetadata': the element reports the length of its source.
LoadedMetadata ==
    /\ devSrc # NoFile
    /\ duration' = handleLoadedMetadata(MediaDuration(devSrc))
    /\ op' = Signal("loadedmetadata", MediaDuration(devSrc))
    /\ cmds' = <<>>
    /\ thrown' = FALSE
    /\ UNCHANGED <<progress, devState>>
    /\ SignalFrame

NextSeek ==
    \/ ImportSong
    \/ PlayFromSongs
    \/ TogglePlayPause
    \/ Ended
    \/ Seek
    \/ TimeUpdate
    \/ LoadedMetadata

SpecSeek == Init /\ [][NextSeek]_vars

---------------------------------------------------------------------------
\* A watched session on imported songs: the history variable records what
\* the properties about consecutive calls refer to.
InitWatched ==
    /\ SessionStart
    /\ hist = Watching(NoSong, <<>>, 0)
    /\ recentlyPlayed = <<>>
    /\ quota = MaxQueue
    /\ InitStored

NextWatched ==
    \/ ImportSong
    \/ PlayFromSongs
    \/ PlayNext
    \/ PlayPrevious
    \/ ToggleShuffle
    \/ ToggleRepeat

SpecWatched == InitWatched /\ [][NextWatched]_vars

---------------------------------------------------------------------------
\* The watched session with shuffle left off.
NextPair ==
    \/ ImportSong
    \/ PlayFromSongs
    \/ PlayNext
    \/ PlayPrevious
    \/ ToggleRepeat

SpecPair == InitWatched /\ [][NextPair]_vars

---------------------------------------------------------------------------
\* Vocabulary of the properties.

\* The values the handler of a transition reads.
ReadBy(name) ==
    IF name = "ended" THEN EndedClosure
    ELSE IF name \in {"nexttrack", "previoustrack", "mediaPlay", "mediaPause"}
         THEN MsClosure
         ELSE Fresh

\* The transition runs playNext / playPrevious.
RunsPlayNext(name) ==
    \/ name \in {"playNext", "nexttrack"}
    \/ name = "ended" /\ ReadBy(name).repeatMode # "one"

RunsPlayPrevious(name) == name \in {"playPrevious", "previoustrack"}

\* The queue that governs next and previous.
Active(c) == IF c.isShuffleActive THEN c.shuffledQueue ELSE c.currentQueue

\* Position of the first entry with this id; 0 when there is none.
Pos(queue, id) ==
    IF \E i \in 1..Len(queue) : queue[i].id = id
    THEN CHOOSE i \in 1..Len(queue) :
            /\ queue[i].id = id
            /\ \A j \in 1..(i - 1) : queue[j].id # id
    ELSE 0

CurrentPos(c) ==
    IF c.currentSong = NoSong THEN 0 ELSE Pos(Active(c), c.currentSong.id)

Ids(queue) == [i \in 1..Len(queue) |-> queue[i].id]

DistinctIds(queue) ==
    Cardinality({queue[i].id : i \in 1..Len(queue)}) = Len(queue)

Live(song) == song # NoSong /\ song.file # NoFile

Stale(song) ==
    /\ song # NoSong
    /\ song.file = NoFile
    /\ \A i \in 1..Len(songs) : songs[i].id # song.id

Without(queue, k) ==
    [i \in 1..(Len(queue) - 1) |-> IF i < k THEN queue[i] ELSE queue[i + 1]]

Issued(kind) == \E k \in 1..Len(cmds) : cmds[k][1] = kind

---------------------------------------------------------------------------
\* C1: whenever shuffle is active and a song is current, the shuffled queue
\* starts with the current song.
C1_ShuffleAnchored ==
    (isShuffleActive /\ currentSong # NoSong) =>
        /\ Len(shuffledQueue) > 0
        /\ shuffledQueue[1].id = currentSong.id

\* C2: playNext on the last entry of the active queue, with the repeat mode
\* it reads being off or one, sets isPlaying to false, keeps the current song
\* and loads no source.
C2_StopAtEnd ==
    [][ ( /\ RunsPlayNext(op'.name)
          /\ CurrentPos(ReadBy(op'.name)) > 0
          /\ CurrentPos(ReadBy(op'.name)) = Len(Active(ReadBy(op'.name)))
          /\ ReadBy(op'.name).repeatMode \in {"off", "one"} )
        => ( /\ isPlaying' = FALSE
             /\ currentSong' = currentSong
             /\ devSrc' = devSrc
             /\ cmds' = <<>> ) ]_vars

\* A skip on the last of two or more entries under repeat one, while the
\* device was playing: the session has stopped on the same song.
C2_Witness ==
    /\ op.name = "playNext"
    /\ repeatMode = "one"
    /\ ~isShuffleActive
    /\ Len(currentQueue) >= 2
    /\ Pos(currentQueue, currentSong.id) = Len(currentQueue)
    /\ ~isPlaying
    /\ devState = "playing"
    /\ cmds = <<>>

\* C3: playNext on the last entry of a non-empty active queue (of any
\* length), with the repeat mode it reads being all, makes the entry at
\* index 0 the current song and sets isPlaying to true.
C3_WrapToFirst ==
    [][ ( /\ RunsPlayNext(op'.name)
          /\ CurrentPos(ReadBy(op'.name)) > 0
          /\ CurrentPos(ReadBy(op'.name)) = Len(Active(ReadBy(op'.name)))
          /\ ReadBy(op'.name).repeatMode = "all" )
        => ( /\ currentSong' = Active(ReadBy(op'.name))[1]
             /\ isPlaying' = TRUE ) ]_vars

\* C4: playNext on an entry that is not the last, followed by a live entry,
\* makes the following entry current and sets isPlaying to true, whatever
\* the repeat mode.
C4_Advance ==
    [][ ( /\ RunsPlayNext(op'.name)
          /\ CurrentPos(ReadBy(op'.name)) > 0
          /\ CurrentPos(ReadBy(op'.name)) < Len(Active(ReadBy(op'.name)))
          /\ Live(Active(ReadBy(op'.name))[CurrentPos(ReadBy(op'.name)) + 1]) )
        => ( /\ currentSong' = Active(ReadBy(op'.name))[CurrentPos(ReadBy(op'.name)) + 1]
             /\ isPlaying' = TRUE
             /\ devSrc' = currentSong'.file ) ]_vars

\* A skip under repeat one has moved to a later entry of the queue and
\* loaded it.
C4_Witness ==
    /\ op.name = "playNext"
    /\ repeatMode = "one"
    /\ ~isShuffleActive
    /\ Pos(currentQueue, currentSong.id) >= 2
    /\ op.song = currentSong
    /\ isPlaying
    /\ cmds = << <<"src", currentSong.file>>, <<"play">> >>

\* C5: playPrevious at index i of an active queue of n entries hands the
\* entry at index (i - 1 + n) mod n to playSong (the last one from index 0),
\* whatever the repeat mode; a live entry other than the current song
\* becomes current.
C5_PreviousWraps ==
    [][ ( /\ RunsPlayPrevious(op'.name)
          /\ CurrentPos(ReadBy(op'.name)) > 0 )
        => LET c == ReadBy(op'.name)
               n == Len(Active(c))
               i == CurrentPos(c)
               target == Active(c)[IF i = 1 THEN n ELSE i - 1]
           IN  /\ op'.song = target
               /\ (Live(target) /\ target.id # c.currentSong.id)
                      => currentSong' = target ]_vars

\* Previous from the first of two or more entries has started the last one.
C5_Witness ==
    /\ op.name = "playPrevious"
    /\ ~isShuffleActive
    /\ Len(currentQueue) >= 2
    /\ Pos(currentQueue, currentSong.id) = Len(currentQueue)
    /\ op.song = currentSong
    /\ Issued("src")

\* C6: the history never holds more than 50 entries, nor two entries with
\* the same id.
C6_HistoryBounded ==
    /\ Len(recentlyPlayed) <= HistoryCap
    /\ DistinctIds(recentlyPlayed)

\* A song that was never played before was started on a full history: it
\* is the only live entry and the history still holds 50 entries.
C6_Witness ==
    /\ op.name = "playSong"
    /\ op.len = HistoryCap
    /\ Len(recentlyPlayed) = HistoryCap
    /\ Live(op.song)
    /\ Issued("src")
    /\ recentlyPlayed[1] = op.song
    /\ \A i \in 2..Len(recentlyPlayed) : ~Live(recentlyPlayed[i])

\* C7: playSong on a live song already in the history moves its entry to
\* index 0 and keeps the length and the order of the others; on a live song
\* not in the history it puts the song at index 0 and drops the oldest
\* entry only when the length would exceed 50.
C7_Promote ==
    [][ Live(op'.song)
        => \E k \in {Pos(recentlyPlayed, op'.song.id)} :
               recentlyPlayed' =
                   IF k > 0
                   THEN <<op'.song>> \o Without(recentlyPlayed, k)
                   ELSE IF Len(recentlyPlayed) < HistoryCap
                        THEN <<op'.song>> \o recentlyPlayed
                        ELSE <<op'.song>> \o Without(recentlyPlayed,
                                                     Len(recentlyPlayed)) ]_vars

\* On a full history, a song that sat behind a later import was played
\* again: it is now first, and the history still holds 50 entries.
C7_Witness ==
    /\ op.len = HistoryCap
    /\ Len(recentlyPlayed) = HistoryCap
    /\ Live(op.song)
    /\ recentlyPlayed[1] = op.song
    /\ Live(recentlyPlayed[2])
    /\ recentlyPlayed[2].id > recentlyPlayed[1].id

\* C8: playSong on the song that is current toggles: it pauses when the
\* isPlaying it reads is true and resumes when it is false, sets no source,
\* keeps the current song and keeps the ids of the history in order.
C8_SameSongToggles ==
    [][ ( /\ op'.song # NoSong
          /\ currentSong # NoSong
          /\ op'.song.id = currentSong.id )
        => ( /\ isPlaying' = ~ReadBy(op'.name).isPlaying
             /\ cmds' = IF ReadBy(op'.name).isPlaying
                        THEN << <<"pause">> >> ELSE << <<"play">> >>
             /\ devSrc' = devSrc
             /\ currentSong' = currentSong
             /\ Ids(recentlyPlayed') = Ids(recentlyPlayed) ) ]_vars

\* A click on the playing song in a list has paused it.
C8_Witness ==
    /\ op.name = "playSong"
    /\ op.song.id = currentSong.id
    /\ cmds = << <<"pause">> >>
    /\ devState = "paused"
    /\ ~isPlaying

\* C9: playSong on a stale song leaves no entry with its id in the history,
\* issues nothing to the device and keeps the current song.
C9_StaleAborts ==
    [][ Stale(op'.song)
        => ( /\ \A i \in 1..Len(recentlyPlayed') :
                    recentlyPlayed'[i].id # op'.song.id
             /\ cmds' = <<>>
             /\ devSrc' = devSrc
             /\ currentSong' = currentSong ) ]_vars

\* A restored entry was clicked while a song was current: the entry is gone
\* from the history.
C9_Witness ==
    /\ op.name = "playSong"
    /\ Stale(op.song)
    /\ currentSong # NoSong
    /\ Len(recentlyPlayed) = op.len - 1
    /\ cmds = <<>>

\* C10: the current song and the source loaded into the device always have
\* a File: the current song is live, the device holds the file of an
\* imported song, and no command sets an empty source.
C10_LiveSource ==
    /\ currentSong # NoSong => currentSong.file # NoFile
    /\ devSrc # NoFile => \E i \in 1..Len(songs) : songs[i].file = devSrc
    /\ currentSong # NoSong => devSrc = currentSong.file
    /\ \A k \in 1..Len(cmds) : cmds[k][1] = "src" => cmds[k][2] # NoFile

\* The end of a song advanced onto a restored entry of the queue: nothing
\* was loaded and the current song is unchanged.
C10_Witness ==
    /\ op.name = "ended"
    /\ Stale(op.song)
    /\ currentSong # NoSong
    /\ devState = "ended"


\* C11: playSong on a live song whose id is not the current song's makes it
\* the current song, sets its file as the source of the device and then
\* issues play, sets isPlaying to true and puts the song first in the
\* history.
C11_StartsOther ==
    [][ ( /\ Live(op'.song)
          /\ (currentSong = NoSong \/ currentSong.id # op'.song.id) )
        => ( /\ currentSong' = op'.song
             /\ devSrc' = op'.song.file
             /\ cmds' = << <<"src", op'.song.file>>, <<"play">> >>
             /\ isPlaying' = TRUE
             /\ Len(recentlyPlayed') > 0
             /\ recentlyPlayed'[1] = op'.song ) ]_vars

\* A second song was started from a list while another one was current:
\* it is current and first in the history, ahead of the earlier one.
C11_Witness ==
    /\ op.name = "playSong"
    /\ Live(op.song)
    /\ currentSong = op.song
    /\ isPlaying
    /\ cmds = << <<"src", op.song.file>>, <<"play">> >>
    /\ Len(recentlyPlayed) >= 2
    /\ recentlyPlayed[1] = op.song
    /\ Live(recentlyPlayed[2])

\* C12: repeatMode starts at off; toggleRepeat moves it off -> all -> one ->
\* off, and no other transition changes it.
C12_RepeatCycle ==
    /\ repeatMode = "off"
    /\ [][ repeatMode' =
             IF op'.name = "toggleRepeat"
             THEN (CASE repeatMode = "off" -> "all"
                     [] repeatMode = "all" -> "one"
                     [] repeatMode = "one" -> "off")
             ELSE repeatMode ]_vars

\* The third toggle in a row of the cycle: the mode is back at off.
C12_Witness ==
    /\ op.name = "toggleRepeat"
    /\ repeatMode = "off"

\* The transition is a direct call of togglePlayPause.
RunsToggle(name) == name \in {"togglePlayPause", "mediaPlay", "mediaPause"}

\* C13: togglePlayPause without a current song changes nothing and issues
\* nothing to the device; with a current song it inverts isPlaying, issues
\* pause when isPlaying was true and play when it was false, and keeps the
\* current song, the queue, the shuffled queue and the history.
C13_Toggle ==
    [][ RunsToggle(op'.name)
        => ( /\ currentSong' = currentSong
             /\ currentQueue' = currentQueue
             /\ shuffledQueue' = shuffledQueue
             /\ recentlyPlayed' = recentlyPlayed
             /\ IF currentSong = NoSong
                THEN /\ cmds' = <<>>
                     /\ UNCHANGED <<isPlaying, isShuffleActive, repeatMode,
                                    devSrc, devState>>
                ELSE /\ isPlaying' = ~isPlaying
                     /\ cmds' = IF isPlaying THEN << <<"pause">> >>
                                ELSE << <<"play">> >> ) ]_vars

\* togglePlayPause was called while no song was current and isPlaying was
\* true: nothing was issued and isPlaying is still true.
C13_Witness ==
    /\ op.name = "togglePlayPause"
    /\ currentSong = NoSong
    /\ isPlaying
    /\ cmds = <<>>
    /\ devState = "empty"

\* C14: toggleShuffle never touches the queue, and a toggleShuffle right
\* after the toggleShuffle that turned shuffle on leaves shuffle off and the
\* shuffled queue empty: the active queue is the queue as it was before the
\* two toggles.
C14_ShuffleOnOff ==
    [][ op'.name = "toggleShuffle"
        => ( /\ currentQueue' = currentQueue
             /\ (op.name = "toggleShuffle" /\ isShuffleActive)
                   => ( /\ isShuffleActive' = FALSE
                        /\ shuffledQueue' = <<>>
                        /\ (IF isShuffleActive' THEN shuffledQueue'
                            ELSE currentQueue') = currentQueue ) ) ]_vars

\* Shuffle was toggled off again on a queue of two or more songs: no
\* shuffled queue is left and the queue is in the order of the song list.
C14_Witness ==
    /\ op.name = "toggleShuffle"
    /\ ~isShuffleActive
    /\ shuffledQueue = <<>>
    /\ Len(currentQueue) >= 2
    /\ currentQueue = songs
    /\ currentSong = currentQueue[Len(currentQueue)]


\* The arrays hold the same entries, each as often as the other.
IsPermutation(a, b) ==
    /\ Len(a) = Len(b)
    /\ \A i \in 1..Len(a) :
          Cardinality({j \in 1..Len(a) : a[j] = a[i]}) =
          Cardinality({j \in 1..Len(b) : b[j] = a[i]})

\* The shuffled queue is anchor, then the other entries of queue in some
\* order.
AnchoredShuffle(shuffled, queue, anchor) ==
    /\ Len(shuffled) > 0
    /\ shuffled[1] = anchor
    /\ IsPermutation(Tail(shuffled), FilterOutId(queue, anchor.id))
    /\ Pos(queue, anchor.id) > 0 => Len(shuffled) = Len(queue)

\* C15: a shuffled queue that is built starts with its anchor, followed by a
\* permutation of the queue's entries with another id, and is as long as the
\* queue when the anchor is in the queue.  toggleShuffle turning shuffle on
\* anchors the current song on the queue; playSong under shuffle anchors
\* the song it was given on the queue it was given.
C15_BuildShuffled ==
    [][ /\ ( /\ op'.name = "toggleShuffle"
             /\ ~isShuffleActive
             /\ currentSong # NoSong )
           => AnchoredShuffle(shuffledQueue', currentQueue, currentSong)
        /\ (op'.song # NoSong /\ isShuffleActive)
           => AnchoredShuffle(shuffledQueue', currentQueue', op'.song) ]_vars

\* Shuffle was turned on for a queue of three or more songs, and the songs
\* behind the anchor are not in the order of the queue.
C15_Witness ==
    /\ op.name = "toggleShuffle"
    /\ isShuffleActive
    /\ Len(currentQueue) >= 3
    /\ Len(shuffledQueue) = Len(currentQueue)
    /\ shuffledQueue[1] = currentSong
    /\ Tail(shuffledQueue) # FilterOutId(currentQueue, currentSong.id)

\* C16: toggleShuffle flips isShuffleActive; the shuffled queue is empty
\* after it turned shuffle on without a current song and after it turned
\* shuffle off; it keeps the current song, isPlaying, the queue, the repeat
\* mode and the history, and issues nothing to the device.
C16_ShuffleFrame ==
    [][ op'.name = "toggleShuffle"
        => ( /\ isShuffleActive' = ~isShuffleActive
             /\ (isShuffleActive' /\ currentSong = NoSong)
                   => shuffledQueue' = <<>>
             /\ ~isShuffleActive' => shuffledQueue' = <<>>
             /\ cmds' = <<>>
             /\ UNCHANGED <<currentSong, isPlaying, currentQueue, repeatMode,
                            recentlyPlayed, devSrc, devState>> ) ]_vars

\* Shuffle was turned on over a queue that holds songs while no song was
\* current: the shuffled queue is empty.
C16_Witness ==
    /\ op.name = "toggleShuffle"
    /\ isShuffleActive
    /\ currentSong = NoSong
    /\ Len(currentQueue) >= 1
    /\ shuffledQueue = <<>>

\* The next state holds the session p that a handler left.
Yields(p) ==
    /\ currentSong' = p.currentSong
    /\ isPlaying' = p.isPlaying
    /\ currentQueue' = p.currentQueue
    /\ shuffledQueue' = p.shuffledQueue
    /\ isShuffleActive' = p.isShuffleActive
    /\ repeatMode' = p.repeatMode
    /\ recentlyPlayed' = p.recentlyPlayed
    /\ devSrc' = p.devSrc
    /\ devState' = p.devState
    /\ cmds' = p.cmds

\* C17: when the device ends under repeat one, the session seeks to 0 and
\* issues play, and keeps the current song, the queue, the shuffled queue
\* and the history; under repeat off or all the session is left as playNext,
\* called on the state the signal arrives in, would leave it.
C17_EndedDelegates ==
    [][ op'.name = "ended"
        => IF repeatMode = "one"
           THEN /\ cmds' = << <<"seek", 0>>, <<"play">> >>
                /\ UNCHANGED <<currentSong, currentQueue, shuffledQueue,
                               recentlyPlayed>>
           ELSE \E rnd \in DrawsForIndex(Fresh, NextIndex(Fresh)) :
                  \E p \in PlayResults(playNext(Fresh,
                                        [Cur EXCEPT !.devState = "ended"], rnd)) :
                    Yields(p) ]_vars

\* C18: playNext and playPrevious with a current song that is not in the
\* active queue (the queue may be empty) change no field of the session and
\* issue nothing to the device.
C18_AbsentInert ==
    [][ ( /\ RunsPlayNext(op'.name) \/ RunsPlayPrevious(op'.name)
          /\ currentSong # NoSong
          /\ CurrentPos(Fresh) = 0 )
        => ( /\ cmds' = <<>>
             /\ op'.song = NoSong
             /\ UNCHANGED <<currentSong, isPlaying, currentQueue,
                            shuffledQueue, isShuffleActive, repeatMode,
                            recentlyPlayed, devSrc, devState>> ) ]_vars

\* playNext was called while the playing song was not among the songs of
\* the active queue: the session is as it was.
C18_Witness ==
    /\ op.name = "playNext"
    /\ currentSong # NoSong
    /\ CurrentPos(Fresh) = 0
    /\ Len(Active(Fresh)) >= 1
    /\ isPlaying
    /\ devState = "playing"
    /\ cmds = <<>>

\* The device refused the play() of the last transition.
Rejected == Issued("play") /\ devState # "playing"

C20_BridgeCurrent ==
    [][ /\ op'.name = "nexttrack"
           => \E rnd \in DrawsForIndex(Fresh, NextIndex(Fresh)) :
                \E p \in PlayResults(playNext(Fresh, Cur, rnd)) : Yields(p)
        /\ op'.name = "previoustrack"
           => \E rnd \in DrawsForIndex(Fresh, PrevIndex(Fresh)) :
                \E p \in PlayResults(playPrevious(Fresh, Cur, rnd)) : Yields(p)
      ]_vars

\* C21: the one 'ended' listener that is attached handles the signal with
\* the values of the state the signal arrives in (current song, queue,
\* shuffled queue, shuffle, repeat mode, isPlaying): the session is left as
\* one run of handleEnded on these values leaves it.
C21_EndedCurrent ==
    [][ op'.name = "ended"
        => \E rnd \in (IF Fresh.repeatMode = "one" THEN {<<>>}
                       ELSE DrawsForIndex(Fresh, NextIndex(Fresh))) :
             \E p \in PlayResults(handleEnded(Fresh,
                                     [Cur EXCEPT !.devState = "ended"], rnd)) :
               Yields(p) ]_vars

\* C22: the now-playing surface mirrors the session: with a current song it
\* shows the title and artist of that song, and "playing" exactly when
\* isPlaying is true, "paused" otherwise; without one the metadata is
\* cleared and the state is "none".
C22_SurfaceMirrors ==
    IF currentSong = NoSong
    THEN msMetadata = 0 /\ msPlaybackState = "none"
    ELSE /\ msMetadata = currentSong.id
         /\ msPlaybackState = IF isPlaying THEN "playing" ELSE "paused"

\* The second song of a session was paused: the surface shows that song,
\* paused.
C22_Witness ==
    /\ op.name = "togglePlayPause"
    /\ currentSong # NoSong
    /\ Len(recentlyPlayed) >= 2
    /\ Live(recentlyPlayed[2])
    /\ ~isPlaying
    /\ msMetadata = currentSong.id
    /\ msPlaybackState = "paused"

\* The stored text holds the entries of history in their order, each with
\* its id and without a file.
StoresProjection(text, history) ==
    /\ text.kind = "json"
    /\ Len(text.value) = Len(history)
    /\ \A i \in 1..Len(history) : text.value[i] = [id |-> history[i].id]

\* C23: after every transition that wrote the history to the store (a
\* playSong, or the first render of a page load), the stored text is the history, in its order, with the file taken out of
\* every entry; no stored entry ever has a file.
C23_StoredProjection ==
    [][ /\ ((op'.song # NoSong \/ op'.name = "load") /\ ~storeFull)
           => StoresProjection(storedHistory', recentlyPlayed')
        /\ storedHistory'.kind = "json"
           => \A i \in 1..Len(storedHistory'.value) :
                 "file" \notin DOMAIN storedHistory'.value[i] ]_vars

\* A second imported song was played and the history was stored: the store
\* holds two entries, in the order of the history, and memory holds their
\* files.
C23_Witness ==
    /\ op.name = "playSong"
    /\ Len(recentlyPlayed) >= 2
    /\ Live(recentlyPlayed[1])
    /\ Live(recentlyPlayed[2])
    /\ StoresProjection(storedHistory, recentlyPlayed)

\* C24: a store that refuses the write of a transition takes nothing back
\* in memory and lets no exception out of the operation: the history holds
\* the played song first (a stale one is gone from it), the settings hold a
\* value the page asked for, and the handler has not thrown.
C24_WriteFailureContained ==
    [][ storeFull
        => ( /\ thrown' = FALSE
             /\ Live(op'.song)
                   => (Len(recentlyPlayed') > 0 /\ recentlyPlayed'[1] = op'.song)
             /\ Stale(op'.song)
                   => \A i \in 1..Len(recentlyPlayed') :
                         recentlyPlayed'[i].id # op'.song.id
             /\ op'.name = "updatePlayerSettings"
                   => \/ playerSettings' = defaultPlayerSettings
                      \/ \E i \in SettingInputs :
                            playerSettings' =
                                Spread(playerSettings, [f \in {i.key} |-> i.value])
           ) ]_vars

\* C25: a page load that finds a key missing, or a text under it that does
\* not parse, does not throw: the history starts empty, the settings start
\* as the defaults.
C25_LoadFallsBack ==
    [][ op'.name = "load"
        => ( /\ thrown' = FALSE
             /\ storedHistory.kind # "json" => recentlyPlayed' = <<>>
             /\ storedSettings.kind # "json"
                   => playerSettings' = defaultPlayerSettings ) ]_vars

\* The page was loaded over a full store that holds a broken text under
\* both keys: the history is empty and the settings are the defaults.
C25_Witness ==
    /\ op.name = "load"
    /\ storeFull
    /\ storedHistory = Corrupt
    /\ storedSettings = Corrupt
    /\ recentlyPlayed = <<>>
    /\ playerSettings = defaultPlayerSettings
    /\ ~thrown

\* C26: a page load that finds a stored record with only some of the
\* settings gives settings with every field of the defaults: a field of the
\* stored record has the stored value, any other the default value.
C26_SettingsBackfilled ==
    [][ (op'.name = "load" /\ storedSettings.kind = "json")
        => ( /\ DOMAIN defaultPlayerSettings \subseteq DOMAIN playerSettings'
             /\ \A f \in DOMAIN defaultPlayerSettings :
                   playerSettings'[f] =
                       IF f \in DOMAIN storedSettings.value
                       THEN storedSettings.value[f]
                       ELSE defaultPlayerSettings[f] ) ]_vars

\* The page was loaded over a stored record that holds showShuffle = false
\* and nothing else: showShuffle is false and fullPlayerSize is the default.
C26_Witness ==
    /\ op.name = "load"
    /\ storedSettings.kind = "json"
    /\ DOMAIN storedSettings.value = {"showShuffle"}
    /\ storedSettings.value.showShuffle = Bool(0)
    /\ playerSettings.showShuffle = Bool(0)
    /\ playerSettings.fullPlayerSize = defaultPlayerSettings.fullPlayerSize

\* C27: after an updatePlayerSettings(s) whose write the store took, the
\* stored record is s and so are the settings in memory; loading that text
\* gives s again, on the spot and at the next page load; no transition
\* other than updatePlayerSettings and a page load changes the settings.
C27_SettingsRoundTrip ==
    [][ /\ (op'.name = "updatePlayerSettings" /\ ~storeFull)
           => ( /\ storedSettings' = JsonText(playerSettings')
                /\ loadSettings(storedSettings') = playerSettings' )
        /\ (op'.name = "load" /\ storedSettings = JsonText(playerSettings))
           => playerSettings' = playerSettings
        /\ op'.name \notin {"updatePlayerSettings", "load"}
           => playerSettings' = playerSettings ]_vars

\* The page was loaded after settings that differ from the defaults in both
\* fields were saved: memory holds them again.
C27_Witness ==
    /\ op.name = "load"
    /\ storedSettings = JsonText(playerSettings)
    /\ playerSettings.fullPlayerSize # defaultPlayerSettings.fullPlayerSize
    /\ playerSettings.showShuffle # defaultPlayerSettings.showShuffle

\* C28: a seek to t hands t to the device as its current time and sets
\* progress to t in the same transition, and leaves the current song,
\* isPlaying, both queues, the shuffle flag, the repeat mode and the history
\* as they were; a 'timeupdate' sets progress to the reported time and a
\* 'loadedmetadata' sets duration to the reported length, and neither
\* changes anything else of the session or the device.
C28_SeekAndSignals ==
    [][ /\ op'.name = "seek"
           => ( /\ cmds' = << <<"seek", op'.value>> >>
                /\ progress' = op'.value
                /\ UNCHANGED <<currentSong, isPlaying, currentQueue,
                               shuffledQueue, isShuffleActive, repeatMode,
                               recentlyPlayed>> )
        /\ op'.name = "timeupdate"
           => ( /\ progress' = op'.value
                /\ UNCHANGED <<duration, devState>>
                /\ SignalFrame )
        /\ op'.name = "loadedmetadata"
           => ( /\ duration' = op'.value
                /\ UNCHANGED <<progress, devState>>
                /\ SignalFrame ) ]_vars

\* A seek forward while the song plays, the length of the file being known
\* and the shown time behind.
C28_Witness ==
    /\ op.name = "seek" /\ op.value > 0
    /\ cmds = << <<"seek", op.value>> >>
    /\ progress = op.value
    /\ duration = MediaDuration(devSrc)
    /\ isPlaying /\ devState = "playing"

\* C29: as long as no play() is rejected, isPlaying is true exactly when the
\* <audio> element is playing: a transition that starts where the two agree
\* and in which no play() is rejected ends where they agree; in particular
\* the element does not play after playNext has stopped at the end of the
\* queue.
C29_PlayingMirrorsDevice ==
    [][ ((isPlaying <=> devState = "playing") /\ ~Rejected')
        => (isPlaying' <=> devState' = "playing") ]_vars

\* C30: a playSong that aborts because the requested entry is stale changes
\* only the history: the queue, the shuffled queue, the current song,
\* isPlaying, the shuffle flag and the repeat mode are after it what they
\* were before it.
C30_StaleAbortFrame ==
    [][ Stale(op'.song)
        => UNCHANGED <<currentQueue, shuffledQueue, currentSong, isPlaying,
                       isShuffleActive, repeatMode>> ]_vars

\* C31: after an 'ended' signal handled with a current song and repeat off
\* or all (no play() being rejected), either another song is current and
\* the <audio> element plays it, or isPlaying is false.
C31_EndedSettles ==
    [][ ( /\ op'.name = "ended"
          /\ currentSong # NoSong
          /\ repeatMode \in {"off", "all"}
          /\ ~Rejected' )
        => \/ ( /\ currentSong' # currentSong
                /\ devSrc' = currentSong'.file
                /\ devState' = "playing" )
           \/ ~isPlaying' ]_vars

\* C32: shuffle was turned on for a queue of n live songs that holds the
\* current song, repeat is off, and only playNext was called since.  Each
\* of the first n-1 calls makes the next entry of the shuffled queue built
\* by the toggle current and starts it; the n-th call sets isPlaying to
\* false and keeps the current song.
C32_ShuffledRun ==
    [][ ( /\ hist.on
          /\ hist.built # <<>>
          /\ op.name \in {"toggleShuffle", "playNext"}
          /\ op'.name = "playNext"
          /\ isShuffleActive
          /\ repeatMode = "off"
          /\ Len(hist.built) = Len(currentQueue)
          /\ \A i \in 1..Len(currentQueue) : Live(currentQueue[i]) )
        => IF hist.played + 1 < Len(hist.built)
           THEN /\ currentSong' = hist.built[hist.played + 2]
                /\ devSrc' = currentSong'.file
                /\ isPlaying'
           ELSE /\ ~isPlaying'
                /\ currentSong' = currentSong ]_vars

\* C33: with shuffle off, repeat all and a queue of two or more songs with
\* distinct ids that all have a file, an 'ended' signal makes the entry
\* after the current one, the first entry after the last, current and
\* loads it, leaves isPlaying true, and keeps the queue, the shuffle flag
\* and the repeat mode; n such signals in a row therefore go once round the
\* queue and come back to the song they started from.
C33_RepeatAllCycle ==
    [][ ( /\ op'.name = "ended"
          /\ ~isShuffleActive
          /\ repeatMode = "all"
          /\ Len(currentQueue) >= 2
          /\ DistinctIds(currentQueue)
          /\ \A i \in 1..Len(currentQueue) : Live(currentQueue[i])
          /\ currentSong # NoSong )
        => \E k \in {Pos(currentQueue, currentSong.id)} :
             /\ k > 0
             /\ currentSong' = currentQueue[(k % Len(currentQueue)) + 1]
             /\ devSrc' = currentSong'.file
             /\ isPlaying'
             /\ UNCHANGED <<currentQueue, isShuffleActive, repeatMode>> ]_vars

\* The last song of a queue of live songs ended under repeat all: the first
\* one is current.
C33_Witness ==
    /\ op.name = "ended"
    /\ ~isShuffleActive /\ repeatMode = "all"
    /\ Len(currentQueue) >= 2
    /\ \A i \in 1..Len(currentQueue) : Live(currentQueue[i])
    /\ currentSong = currentQueue[1]
    /\ op.song = currentSong
    /\ isPlaying

\* C34: in every reachable state isPlaying implies that a song is current,
\* and no transition takes the current song away once there is one.
C34_NeverIdleAgain ==
    /\ [](isPlaying => currentSong # NoSong)
    /\ [][currentSong # NoSong => currentSong' # NoSong]_vars

\* Playback was stopped at the end of the queue and the history has lost a
\* stale entry since: a song is still current.
C34_Witness ==
    /\ currentSong # NoSong
    /\ ~isPlaying
    /\ Stale(op.song)
    /\ devState = "ended"

\* C35: whenever a song is current, the first entry of the history has its
\* id.
C35_CurrentHeadsHistory ==
    currentSong # NoSong =>
        /\ Len(recentlyPlayed) > 0
        /\ recentlyPlayed[1].id = currentSong.id

\* A stale entry was clicked and evicted from a full history while an
\* imported song was current: the song is still first.
C35_Witness ==
    /\ currentSong # NoSong
    /\ Stale(op.song)
    /\ op.len = HistoryCap
    /\ Len(recentlyPlayed) = HistoryCap - 1
    /\ recentlyPlayed[1].id = currentSong.id

\* C36: with shuffle off and a queue of live songs with distinct ids in
\* which the current song is found and is not the last (or repeat is all),
\* a playNext followed at once by a playPrevious leaves the song current
\* that was current before the two.  (hist.before is the song that was
\* current before the playNext.)
C36_NextThenPrevious ==
    [][ ( /\ hist.on
          /\ op.name = "playNext"
          /\ op'.name = "playPrevious"
          /\ ~isShuffleActive
          /\ DistinctIds(currentQueue)
          /\ \A i \in 1..Len(currentQueue) : Live(currentQueue[i])
          /\ \E k \in {Pos(currentQueue, hist.before.id)} :
                k > 0 /\ (k < Len(currentQueue) \/ repeatMode = "all") )
        => currentSong' = hist.before ]_vars

\* Previous was pressed on the first song of a queue of three or more under
\* repeat all, the last song having been current before: the last song is
\* current again.
C36_Witness ==
    /\ hist.on
    /\ op.name = "playPrevious"
    /\ ~isShuffleActive /\ repeatMode = "all"
    /\ Len(currentQueue) >= 3
    /\ hist.before = currentQueue[1]
    /\ currentSong = currentQueue[Len(currentQueue)]


\* C37: a 'play' control of the now-playing surface never leaves isPlaying
\* false and a 'pause' control never leaves it true, whatever isPlaying was
\* when the control came in.
C37_ControlsDirected ==
    [][ /\ op'.name = "mediaPlay" => isPlaying'
        /\ op'.name = "mediaPause" => ~isPlaying' ]_vars
====
